---- MODULE Spec2Model ----
(***************************************************************************)
(* Model of mlsys::Graph (src/src/graph.cpp, graph.h): the constructor     *)
(* that derives the producer / user / predecessor / successor maps of a    *)
(* Problem, and Graph::TopologicalOrder (Kahn's algorithm, FIFO queue).    *)
(*                                                                         *)
(* Conventions.  Tensor and operation ids are the 0-based std::size_t      *)
(* indices of the source.  A std::vector that is iterated or appended to   *)
(* is a TLA+ sequence (element k of the vector is seq[k + 1]); a           *)
(* std::vector that is only indexed by id is a function on 0 .. n-1.       *)
(* A std::size_t is written as its value, except the all-ones value        *)
(* static_cast<std::size_t>(-1), which is written -1: 0 - 1 wraps to it.   *)
(* An exception is the record of the values streamed into its message.     *)
(*                                                                         *)
(* A behaviour fills a Problem (PushOp), constructs a Graph from it        *)
(* (GraphCtor) and, on a built Graph, runs TopologicalOrder step by step   *)
(* (TopoBegin, TopoStep per loop iteration, TopoEnd): Spec.  QuerySpec     *)
(* adds the queries of the Graph, BuildDot and repeated calls of           *)
(* TopologicalOrder; DotSpec renders Problems whose operation types hold   *)
(* the characters EscapeDotString rewrites (a std::string is the sequence  *)
(* of its characters); MainSpec is a run of the command-line front end     *)
(* (src/src/main.cpp) on a Problem as its input file.                      *)
(***************************************************************************)
EXTENDS Integers, Sequences, FiniteSets, TLC

\* ---------------------------------------------------------------- bounds
\* Size of a Problem: its tensors, its operations and the entries of all
\* input and output lists, counted together.
MaxSize == 9

\* ------------------------------------------------------------- constants
kInvalidOp == -1

NoGraph == [built |-> FALSE]
NoException == [what |-> "none"]
NoCall == [fn |-> "none"]
NoDot == [built |-> FALSE]
NotStarted == [pc |-> "none"]

VARIABLES problem, ctor, graph, thrown, pc, indegree, ready, order,
          prev, query, dot, main

vars == <<problem, ctor, graph, thrown, pc, indegree, ready, order,
          prev, query, dot, main>>

\* ------------------------------------------------------ Problem (inputs)
Tensor == [width |-> 1, height |-> 1]

IndexLists(max_index, max_len) ==
  UNION {[1..k -> 0..max_index] : k \in 0..max_len}

\* A std::string is the sequence of its characters; an Op pushed by PushOp
\* keeps the default type (empty) and base_cost (0) of struct Op.
TypedOp(type, inputs, outputs, base_cost) ==
  [type |-> type, inputs |-> inputs, outputs |-> outputs,
   base_cost |-> base_cost]

Op(inputs, outputs) == TypedOp(<<>>, inputs, outputs, 0)

Refs(op) == Len(op.inputs) + Len(op.outputs)

RECURSIVE TotalRefs(_)
TotalRefs(ops) ==
  IF ops = <<>> THEN 0 ELSE Refs(Head(ops)) + TotalRefs(Tail(ops))

Problem(n) == [tensors |-> [k \in 1..n |-> Tensor], ops |-> <<>>]

Size(p) == Len(p.tensors) + Len(p.ops) + TotalRefs(p.ops)

NumTensors == Len(problem.tensors)

NumOps == Len(problem.ops)

GetOp(op_id) == problem.ops[op_id + 1]

TensorIds == 0..(NumTensors - 1)

OpIds == 0..(NumOps - 1)

\* ------------------------------------------------------------- helpers
RECURSIVE Insert(_, _)
Insert(sorted, v) ==
  IF sorted = <<>> THEN <<v>>
  ELSE IF v <= Head(sorted) THEN <<v>> \o sorted
  ELSE <<Head(sorted)>> \o Insert(Tail(sorted), v)

RECURSIVE Sort(_)
Sort(values) ==
  IF values = <<>> THEN <<>> ELSE Insert(Sort(Tail(values)), Head(values))

RECURSIVE Unique(_)
Unique(values) ==
  IF Len(values) <= 1 THEN values
  ELSE IF values[1] = values[2] THEN Unique(Tail(values))
  ELSE <<values[1]>> \o Unique(Tail(values))

\* Variant: sorts and keeps duplicates.
SortAndUnique_SortOnly(values) == Sort(values)

SortAndUnique(values) == Unique(Sort(values))

\* ----------------------------------------------------------- exceptions
CheckTensorId(tensor_id) == tensor_id >= NumTensors

TensorIdOutOfRange(tensor_id) ==
  [what |-> "Tensor id out of range", tensor_id |-> tensor_id]

\* Variant: the two operations are streamed in the opposite order.
MultipleProducers_Swapped(tensor_id, producer, op_id) ==
  [what |-> "has multiple producers", tensor_id |-> tensor_id,
   first_op |-> op_id, second_op |-> producer]

MultipleProducers(tensor_id, producer, op_id) ==
  [what |-> "has multiple producers", tensor_id |-> tensor_id,
   first_op |-> producer, second_op |-> op_id]

NotADag == [what |-> "Op graph is not a DAG: topological sort failed."]

\* ------------------------------------------- Graph::Graph, lines 47 - 71
ScanInit ==
  [tensor_producer_op_ |-> [t \in TensorIds |-> kInvalidOp],
   tensor_user_ops_ |-> [t \in TensorIds |-> <<>>],
   thrown |-> NoException]

RECURSIVE ScanInputs(_, _, _)
ScanInputs(s, op_id, k) ==
  IF s.thrown # NoException \/ k > Len(GetOp(op_id).inputs) THEN s
  ELSE LET tensor_id == GetOp(op_id).inputs[k] IN
       IF CheckTensorId(tensor_id)
       THEN [s EXCEPT !.thrown = TensorIdOutOfRange(tensor_id)]
       ELSE ScanInputs(
              [s EXCEPT !.tensor_user_ops_[tensor_id] = Append(@, op_id)],
              op_id, k + 1)

\* Variant: a recorded producer is never compared with the scanned operation.
ProducerConflict_Never(s, tensor_id, op_id) == FALSE

\* Variant: any recorded producer conflicts, the scanned operation included.
ProducerConflict_AnyRecorded(s, tensor_id, op_id) ==
  s.tensor_producer_op_[tensor_id] # kInvalidOp

ProducerConflict(s, tensor_id, op_id) ==
  /\ s.tensor_producer_op_[tensor_id] # kInvalidOp
  /\ s.tensor_producer_op_[tensor_id] # op_id

RECURSIVE ScanOutputs(_, _, _)
ScanOutputs(s, op_id, k) ==
  IF s.thrown # NoException \/ k > Len(GetOp(op_id).outputs) THEN s
  ELSE LET tensor_id == GetOp(op_id).outputs[k] IN
       IF CheckTensorId(tensor_id)
       THEN [s EXCEPT !.thrown = TensorIdOutOfRange(tensor_id)]
       ELSE IF ProducerConflict(s, tensor_id, op_id)
       THEN [s EXCEPT !.thrown =
               MultipleProducers(tensor_id, s.tensor_producer_op_[tensor_id],
                                 op_id)]
       ELSE ScanOutputs(
              [s EXCEPT !.tensor_producer_op_[tensor_id] = op_id],
              op_id, k + 1)

RECURSIVE ScanOps(_, _)
ScanOps(s, op_id) ==
  IF s.thrown # NoException \/ op_id >= NumOps THEN s
  ELSE ScanOps(ScanOutputs(ScanInputs(s, op_id, 1), op_id, 1), op_id + 1)

\* ------------------------------------------ Graph::Graph, lines 73 - 108
\* Variant: the user lists are left as pushed.
SortedUsers_AsPushed(users) == users

SortedUsers(users) == [t \in TensorIds |-> SortAndUnique(users[t])]

\* Variant: the producer is kept even when it is the operation itself.
RECURSIVE CollectProducers_WithSelf(_, _, _, _)
CollectProducers_WithSelf(predecessors, producer_of, op_id, k) ==
  IF k > Len(GetOp(op_id).inputs) THEN predecessors
  ELSE LET producer == producer_of[GetOp(op_id).inputs[k]] IN
       CollectProducers_WithSelf(
         IF producer # kInvalidOp
         THEN Append(predecessors, producer) ELSE predecessors,
         producer_of, op_id, k + 1)

\* Graph::Graph, lines 77 - 87: the producers of an operation's inputs.
RECURSIVE CollectProducers(_, _, _, _)
CollectProducers(predecessors, producer_of, op_id, k) ==
  IF k > Len(GetOp(op_id).inputs) THEN predecessors
  ELSE LET producer == producer_of[GetOp(op_id).inputs[k]] IN
       CollectProducers(
         IF producer # kInvalidOp /\ producer # op_id
         THEN Append(predecessors, producer) ELSE predecessors,
         producer_of, op_id, k + 1)

Predecessors(producer_of) ==
  [op_id \in OpIds |->
     SortAndUnique(CollectProducers(<<>>, producer_of, op_id, 1))]

\* Variant: pushes the predecessor onto the operation's own list.
RECURSIVE PushSuccessors_Swapped(_, _, _, _)
PushSuccessors_Swapped(successors, predecessors, op_id, k) ==
  IF op_id >= NumOps THEN successors
  ELSE IF k > Len(predecessors[op_id])
  THEN PushSuccessors_Swapped(successors, predecessors, op_id + 1, 1)
  ELSE PushSuccessors_Swapped(
         [successors EXCEPT ![op_id] = Append(@, predecessors[op_id][k])],
         predecessors, op_id, k + 1)

RECURSIVE PushSuccessors(_, _, _, _)
PushSuccessors(successors, predecessors, op_id, k) ==
  IF op_id >= NumOps THEN successors
  ELSE IF k > Len(predecessors[op_id])
  THEN PushSuccessors(successors, predecessors, op_id + 1, 1)
  ELSE PushSuccessors(
         [successors EXCEPT ![predecessors[op_id][k]] = Append(@, op_id)],
         predecessors, op_id, k + 1)

Successors(predecessors) ==
  LET pushed == PushSuccessors([p \in OpIds |-> <<>>], predecessors, 0, 1)
  IN [p \in OpIds |-> SortAndUnique(pushed[p])]

HasProducer(g, tensor_id) == g.tensor_producer_op_[tensor_id] # kInvalidOp

UserOps(g, tensor_id) == g.tensor_user_ops_[tensor_id]

IsGraphInputTensor(g, tensor_id) == ~HasProducer(g, tensor_id)

IsGraphOutputTensor(g, tensor_id) == UserOps(g, tensor_id) = <<>>

\* Variant: the output test is an else-branch of the input test.
RECURSIVE BoundaryTensors_ElseIf(_, _, _, _)
BoundaryTensors_ElseIf(g, tensor_id, inputs, outputs) ==
  IF tensor_id >= NumTensors
  THEN [graph_input_tensors_ |-> inputs, graph_output_tensors_ |-> outputs]
  ELSE BoundaryTensors_ElseIf(g, tensor_id + 1,
         IF IsGraphInputTensor(g, tensor_id)
         THEN Append(inputs, tensor_id) ELSE inputs,
         IF ~IsGraphInputTensor(g, tensor_id)
            /\ IsGraphOutputTensor(g, tensor_id)
         THEN Append(outputs, tensor_id) ELSE outputs)

RECURSIVE BoundaryTensors(_, _, _, _)
BoundaryTensors(g, tensor_id, inputs, outputs) ==
  IF tensor_id >= NumTensors
  THEN [graph_input_tensors_ |-> inputs, graph_output_tensors_ |-> outputs]
  ELSE BoundaryTensors(g, tensor_id + 1,
         IF IsGraphInputTensor(g, tensor_id)
         THEN Append(inputs, tensor_id) ELSE inputs,
         IF IsGraphOutputTensor(g, tensor_id)
         THEN Append(outputs, tensor_id) ELSE outputs)

BuildGraph(s) ==
  LET users == SortedUsers(s.tensor_user_ops_)
      preds == Predecessors(s.tensor_producer_op_)
      succs == Successors(preds)
      maps == [built |-> TRUE,
               tensor_producer_op_ |-> s.tensor_producer_op_,
               tensor_user_ops_ |-> users,
               op_predecessors_ |-> preds,
               op_successors_ |-> succs]
      boundary == BoundaryTensors(maps, 0, <<>>, <<>>)
  IN [built |-> TRUE,
      tensor_producer_op_ |-> s.tensor_producer_op_,
      tensor_user_ops_ |-> users,
      op_predecessors_ |-> preds,
      op_successors_ |-> succs,
      graph_input_tensors_ |-> boundary.graph_input_tensors_,
      graph_output_tensors_ |-> boundary.graph_output_tensors_]

\* ------------------------------------------------------ public queries
nullopt == [has_value |-> FALSE]

Some(v) == [has_value |-> TRUE, value |-> v]

ProducerOp(tensor_id) ==
  IF graph.tensor_producer_op_[tensor_id] = kInvalidOp
  THEN nullopt ELSE Some(graph.tensor_producer_op_[tensor_id])

PredecessorOps(op_id) == graph.op_predecessors_[op_id]

SuccessorOps(op_id) == graph.op_successors_[op_id]

GraphInputTensors == graph.graph_input_tensors_

GraphOutputTensors == graph.graph_output_tensors_

\* ---------------------------------------------------------------- state
Init ==
  /\ \E n \in 0..MaxSize : problem = Problem(n)
  /\ ctor = "pending"
  /\ graph = NoGraph
  /\ thrown = NoException
  /\ pc = "idle"
  /\ indegree = <<>>
  /\ ready = <<>>
  /\ order = <<>>
  /\ prev = NoCall
  /\ query = NoCall
  /\ dot = NoDot
  /\ main = NotStarted

\* The owner of the Problem appends one Op to problem.ops before any Graph
\* refers to it and before the command-line front end loads it.  A list may hold any index from 0 up to the tensor count,
\* the tensor count being the out-of-range one.
PushOp ==
  /\ ctor = "pending"
  /\ main = NotStarted
  /\ Size(problem) < MaxSize
  /\ LET budget == MaxSize - Size(problem) - 1 IN
       \E inputs \in IndexLists(NumTensors, budget) :
         \E outputs \in IndexLists(NumTensors, budget - Len(inputs)) :
           problem' = [problem EXCEPT !.ops = Append(@, Op(inputs, outputs))]
  /\ UNCHANGED <<ctor, graph, thrown, pc, indegree, ready, order,
               prev, query, dot, main>>

\* Graph::Graph(const Problem&): the whole constructor.
GraphCtor ==
  /\ ctor = "pending"
  /\ LET s == ScanOps(ScanInit, 0) IN
       IF s.thrown # NoException
       THEN /\ ctor' = "threw"
            /\ graph' = NoGraph
            /\ thrown' = s.thrown
       ELSE /\ ctor' = "built"
            /\ graph' = BuildGraph(s)
            /\ thrown' = NoException
  /\ UNCHANGED <<problem, pc, indegree, ready, order,
               prev, query, dot, main>>

\* Variant: every operation is seeded, whatever its in-degree.
RECURSIVE SeedReady_All(_, _, _)
SeedReady_All(q, deg, op_id) ==
  IF op_id >= NumOps THEN q
  ELSE SeedReady_All(Append(q, op_id), deg, op_id + 1)

\* Graph::TopologicalOrder, lines 190 - 203: in-degrees and the seeded queue.
RECURSIVE SeedReady(_, _, _)
SeedReady(q, deg, op_id) ==
  IF op_id >= NumOps THEN q
  ELSE SeedReady(IF deg[op_id] = 0 THEN Append(q, op_id) ELSE q,
                 deg, op_id + 1)

TopoBegin ==
  /\ ctor = "built"
  /\ pc = "idle"
  /\ LET deg == [op_id \in OpIds |-> Len(graph.op_predecessors_[op_id])] IN
       /\ indegree' = deg
       /\ ready' = SeedReady(<<>>, deg, 0)
  /\ order' = <<>>
  /\ pc' = "loop"
  /\ UNCHANGED <<problem, ctor, graph, thrown,
               prev, query, dot, main>>

\* Variant: every successor is pushed, whatever its counter has become.
RECURSIVE Release_PushAlways(_, _, _)
Release_PushAlways(st, successors, k) ==
  IF k > Len(successors) THEN st
  ELSE LET successor == successors[k]
           dec == st.indegree[successor] - 1
       IN Release_PushAlways(
            [indegree |-> [st.indegree EXCEPT ![successor] = dec],
             ready |-> Append(st.ready, successor)],
            successors, k + 1)

\* Variant: a successor that becomes ready goes to the front of the queue.
RECURSIVE Release_Lifo(_, _, _)
Release_Lifo(st, successors, k) ==
  IF k > Len(successors) THEN st
  ELSE LET successor == successors[k]
           dec == st.indegree[successor] - 1
       IN Release_Lifo(
            [indegree |-> [st.indegree EXCEPT ![successor] = dec],
             ready |-> IF dec = 0 THEN <<successor>> \o st.ready
                       ELSE st.ready],
            successors, k + 1)

\* One iteration of the while loop, lines 204 - 214.
RECURSIVE Release(_, _, _)
Release(st, successors, k) ==
  IF k > Len(successors) THEN st
  ELSE LET successor == successors[k]
           dec == st.indegree[successor] - 1
       IN Release(
            [indegree |-> [st.indegree EXCEPT ![successor] = dec],
             ready |-> IF dec = 0 THEN Append(st.ready, successor)
                       ELSE st.ready],
            successors, k + 1)

\* Variant: the successor list of the removed operation is moved out of the
\* Graph instead of being read.
TopoStep_DrainsSuccessors ==
  /\ pc = "loop"
  /\ ready # <<>>
  /\ LET op_id == Head(ready)
         st == Release([indegree |-> indegree, ready |-> Tail(ready)],
                       graph.op_successors_[op_id], 1)
     IN /\ order' = Append(order, op_id)
        /\ indegree' = st.indegree
        /\ ready' = st.ready
        /\ graph' = [graph EXCEPT !.op_successors_[op_id] = <<>>]
  /\ UNCHANGED <<problem, ctor, thrown, pc,
               prev, query, dot, main>>

TopoStep ==
  /\ pc = "loop"
  /\ ready # <<>>
  /\ LET op_id == Head(ready)
         st == Release([indegree |-> indegree, ready |-> Tail(ready)],
                       graph.op_successors_[op_id], 1)
     IN /\ order' = Append(order, op_id)
        /\ indegree' = st.indegree
        /\ ready' = st.ready
  /\ UNCHANGED <<problem, ctor, graph, thrown, pc,
               prev, query, dot, main>>

\* Variant: the order is returned without the size check.
TopoEnd_NoCheck ==
  /\ pc = "loop"
  /\ ready = <<>>
  /\ pc' = "returned"
  /\ thrown' = NoException
  /\ UNCHANGED <<problem, ctor, graph, indegree, ready, order,
               prev, query, dot, main>>

\* Lines 216 - 219: the size check, then throw or return.
TopoEnd ==
  /\ pc = "loop"
  /\ ready = <<>>
  /\ IF Len(order) # NumOps
     THEN /\ pc' = "threw"
          /\ thrown' = NotADag
     ELSE /\ pc' = "returned"
          /\ thrown' = NoException
  /\ UNCHANGED <<problem, ctor, graph, indegree, ready, order,
               prev, query, dot, main>>

Next == PushOp \/ GraphCtor \/ TopoBegin \/ TopoStep \/ TopoEnd

\* ------------------------------------------------ queries on a built Graph
\* Largest Problem on which the queries below and repeated calls of
\* TopologicalOrder are explored.
MaxQuerySize == 6

\* Variant: the last valid operation id is rejected as well.
CheckOpId_OffByOne(op_id) == op_id + 1 >= NumOps

CheckOpId(op_id) == op_id >= NumOps

OpIdOutOfRange(op_id) == [what |-> "Op id out of range", op_id |-> op_id]

\* The outcome of a call: the exception it threw or the value it returned.
Threw(fn, arg, exception) ==
  [fn |-> fn, arg |-> arg, thrown |-> exception]

Returned(fn, arg, value) ==
  [fn |-> fn, arg |-> arg, thrown |-> NoException, value |-> value]

GetTensor(tensor_id) == problem.tensors[tensor_id + 1]

DescribeTensor(tensor_id) ==
  LET producer == ProducerOp(tensor_id) IN
    [tensor_id |-> tensor_id,
     producer_op |-> producer,
     user_ops |-> UserOps(graph, tensor_id),
     is_graph_input |-> ~producer.has_value,
     is_graph_output |-> UserOps(graph, tensor_id) = <<>>]

DescribeAllTensors == [k \in 1..NumTensors |-> DescribeTensor(k - 1)]

TensorQueries ==
  {"GetTensor", "HasProducer", "ProducerOp", "UserOps", "IsGraphInputTensor",
   "IsGraphOutputTensor", "DescribeTensor"}

OpQueries == {"GetOp", "PredecessorOps", "SuccessorOps"}

\* Every tensor query starts with CheckTensorId (lines 116, 126, 131, 139).
TensorQuery(fn, tensor_id) ==
  IF CheckTensorId(tensor_id)
  THEN Threw(fn, tensor_id, TensorIdOutOfRange(tensor_id))
  ELSE Returned(fn, tensor_id,
         CASE fn = "GetTensor" -> GetTensor(tensor_id)
           [] fn = "HasProducer" -> HasProducer(graph, tensor_id)
           [] fn = "ProducerOp" -> ProducerOp(tensor_id)
           [] fn = "UserOps" -> UserOps(graph, tensor_id)
           [] fn = "IsGraphInputTensor" -> IsGraphInputTensor(graph, tensor_id)
           [] fn = "IsGraphOutputTensor" ->
                IsGraphOutputTensor(graph, tensor_id)
           [] fn = "DescribeTensor" -> DescribeTensor(tensor_id))

\* Every operation query starts with CheckOpId (lines 121, 180, 185).
OpQuery(fn, op_id) ==
  IF CheckOpId(op_id)
  THEN Threw(fn, op_id, OpIdOutOfRange(op_id))
  ELSE Returned(fn, op_id,
         CASE fn = "GetOp" -> GetOp(op_id)
           [] fn = "PredecessorOps" -> PredecessorOps(op_id)
           [] fn = "SuccessorOps" -> SuccessorOps(op_id))

\* A caller sits between two calls: the Graph is built and no
\* TopologicalOrder is running.
BetweenCalls ==
  ctor = "built" /\ pc = "idle" /\ Size(problem) <= MaxQuerySize

\* One tensor query, with any index up to the first out-of-range one.
CallTensorQuery ==
  /\ BetweenCalls
  /\ \E fn \in TensorQueries : \E tensor_id \in 0..NumTensors :
       query' = TensorQuery(fn, tensor_id)
  /\ UNCHANGED <<problem, ctor, graph, thrown, pc, indegree, ready, order,
                 prev, dot, main>>

\* One operation query, with any index up to the first out-of-range one.
CallOpQuery ==
  /\ BetweenCalls
  /\ \E fn \in OpQueries : \E op_id \in 0..NumOps :
       query' = OpQuery(fn, op_id)
  /\ UNCHANGED <<problem, ctor, graph, thrown, pc, indegree, ready, order,
                 prev, dot, main>>

\* One of the queries that take no index.
CallListQuery ==
  /\ BetweenCalls
  /\ \/ query' = Returned("DescribeAllTensors", 0, DescribeAllTensors)
     \/ query' = Returned("GraphInputTensors", 0, GraphInputTensors)
     \/ query' = Returned("GraphOutputTensors", 0, GraphOutputTensors)
  /\ UNCHANGED <<problem, ctor, graph, thrown, pc, indegree, ready, order,
                 prev, dot, main>>

\* What a finished TopologicalOrder gives its caller (lines 216 - 219).
TopoOutcome ==
  IF pc = "threw" THEN Threw("TopologicalOrder", 0, thrown)
  ELSE Returned("TopologicalOrder", 0, order)

\* TopologicalOrder hands its outcome to the caller: the locals are gone, the
\* caller holds the order or has caught the exception.
TopoResult ==
  /\ pc \in {"returned", "threw"}
  /\ Size(problem) <= MaxQuerySize
  /\ prev' = TopoOutcome
  /\ pc' = "idle"
  /\ thrown' = NoException
  /\ indegree' = <<>>
  /\ ready' = <<>>
  /\ order' = <<>>
  /\ UNCHANGED <<problem, ctor, graph, query, dot, main>>

\* ------------------------------------------------------------- BuildDot
\* Longest operation type of the rendered Problems.
MaxTypeLen == 3

\* The characters EscapeDotString rewrites, and two it copies.
Backslash == "\\"
Quote == "\""
Newline == "\n"
TypeChars == {Backslash, Quote, Newline, "n", "a"}

Strings(max_len) == UNION {[1..k -> TypeChars] : k \in 0..max_len}

\* Variant: backslashes are copied, quotes and newlines escaped.
RECURSIVE EscapeDotString_KeepsBackslash(_)
EscapeDotString_KeepsBackslash(raw) ==
  IF raw = <<>> THEN <<>>
  ELSE LET c == Head(raw) IN
       (CASE c = Quote -> <<Backslash, Quote>>
          [] c = Newline -> <<Backslash, "n">>
          [] OTHER -> <<c>>)
       \o EscapeDotString_KeepsBackslash(Tail(raw))

\* EscapeDotString, lines 20 - 40: character by character.
RECURSIVE EscapeDotString(_)
EscapeDotString(raw) ==
  IF raw = <<>> THEN <<>>
  ELSE LET c == Head(raw) IN
       (CASE c = Backslash -> <<Backslash, Backslash>>
          [] c = Quote -> <<Backslash, Quote>>
          [] c = Newline -> <<Backslash, "n">>
          [] OTHER -> <<c>>)
       \o EscapeDotString(Tail(raw))

\* operator<< of an integer: its decimal digits.
Digit(d) == <<"0", "1", "2", "3", "4", "5", "6", "7", "8", "9">>[d + 1]

RECURSIVE Digits(_)
Digits(n) ==
  IF n < 10 THEN <<Digit(n)>> ELSE Digits(n \div 10) \o <<Digit(n % 10)>>

\* The C++ literal "\\n" between two annotations: a backslash and an n.
LineBreak == <<Backslash, "n">>

\* Lines 253 - 264: the colours of a tensor node.
FillColor(is_graph_input, is_graph_output) ==
  IF is_graph_input /\ is_graph_output THEN "#fde68a"
  ELSE IF is_graph_input THEN "#bbf7d0"
  ELSE IF is_graph_output THEN "#bfdbfe"
  ELSE "#f3f4f6"

BorderColor(is_graph_input, is_graph_output) ==
  IF is_graph_input /\ is_graph_output THEN "#b45309"
  ELSE IF is_graph_input THEN "#15803d"
  ELSE IF is_graph_output THEN "#1d4ed8"
  ELSE "#6b7280"

\* Lines 266 - 274: the label of a tensor node before it is escaped.
TensorLabel(tensor_id) ==
  <<"T", "e", "n", "s", "o", "r", "[">> \o Digits(tensor_id) \o <<"]">>
  \o LineBreak \o Digits(GetTensor(tensor_id).height) \o <<"x">>
  \o Digits(GetTensor(tensor_id).width)
  \o (IF IsGraphInputTensor(graph, tensor_id)
      THEN LineBreak \o <<"i", "n", "p", "u", "t">> ELSE <<>>)
  \o (IF IsGraphOutputTensor(graph, tensor_id)
      THEN LineBreak \o <<"o", "u", "t", "p", "u", "t">> ELSE <<>>)

\* Lines 276 - 279: the statement of a tensor node; label is the text
\* between the quotes of the label attribute.
TensorNode(tensor_id) ==
  [name |-> <<"t">> \o Digits(tensor_id),
   shape |-> "ellipse",
   fillcolor |-> FillColor(IsGraphInputTensor(graph, tensor_id),
                           IsGraphOutputTensor(graph, tensor_id)),
   color |-> BorderColor(IsGraphInputTensor(graph, tensor_id),
                         IsGraphOutputTensor(graph, tensor_id)),
   label |-> EscapeDotString(TensorLabel(tensor_id))]

\* Lines 285 - 288: the label of an operation node before it is escaped.
OpLabel(op_id) ==
  <<"O", "p", "[">> \o Digits(op_id) \o <<"]">>
  \o LineBreak \o GetOp(op_id).type
  \o LineBreak \o <<"c", "o", "s", "t", "=">>
  \o Digits(GetOp(op_id).base_cost)
  \o LineBreak \o <<"p", "r", "e", "d", "s", "=">>
  \o Digits(Len(PredecessorOps(op_id)))
  \o LineBreak \o <<"s", "u", "c", "c", "s", "=">>
  \o Digits(Len(SuccessorOps(op_id)))

\* Lines 290 - 293: the statement of an operation node.
OpNode(op_id) ==
  [name |-> <<"o">> \o Digits(op_id),
   shape |-> "box",
   fillcolor |-> "#fee2e2",
   color |-> "#991b1b",
   label |-> EscapeDotString(OpLabel(op_id))]

\* Lines 297 - 305: the edge statements, operation by operation, inputs
\* before outputs.
RECURSIVE Edges(_)
Edges(op_id) ==
  IF op_id >= NumOps THEN <<>>
  ELSE [k \in 1..Len(GetOp(op_id).inputs) |->
          [from |-> <<"t">> \o Digits(GetOp(op_id).inputs[k]),
           to |-> <<"o">> \o Digits(op_id)]]
       \o [k \in 1..Len(GetOp(op_id).outputs) |->
             [from |-> <<"o">> \o Digits(op_id),
              to |-> <<"t">> \o Digits(GetOp(op_id).outputs[k])]]
       \o Edges(op_id + 1)

\* BuildDot, lines 238 - 309: the statements of the returned text, in the
\* order they are written; the header lines are the same in every text.
BuildDot ==
  [built |-> TRUE,
   tensors |-> [k \in 1..NumTensors |-> TensorNode(k - 1)],
   ops |-> [k \in 1..NumOps |-> OpNode(k - 1)],
   edges |-> Edges(0)]

CallBuildDot ==
  /\ BetweenCalls
  /\ dot' = BuildDot
  /\ UNCHANGED <<problem, ctor, graph, thrown, pc, indegree, ready, order,
                 prev, query, main>>

\* The rendered Problems: two tensors, one of them written by an operation
\* of any type, which is alone or followed by an operation that reads it.
DotTensor(width, height) == [width |-> width, height |-> height]

DotProblems ==
  {[tensors |-> <<DotTensor(2, 13), DotTensor(1, 1)>>,
    ops |-> <<TypedOp(type, <<>>, <<1>>, cost)>> \o more] :
     type \in Strings(MaxTypeLen), cost \in {0, 250},
     more \in {<<>>, <<TypedOp(<<"a">>, <<1>>, <<>>, 7)>>}}

DotInit ==
  /\ problem \in DotProblems
  /\ ctor = "pending"
  /\ graph = NoGraph
  /\ thrown = NoException
  /\ pc = "idle"
  /\ indegree = <<>>
  /\ ready = <<>>
  /\ order = <<>>
  /\ prev = NoCall
  /\ query = NoCall
  /\ dot = NoDot
  /\ main = NotStarted

DotNext == GraphCtor \/ CallBuildDot

DotSpec == DotInit /\ [][DotNext]_vars

QueryNext ==
  \/ PushOp \/ GraphCtor \/ TopoBegin \/ TopoStep \/ TopoEnd \/ TopoResult
  \/ CallTensorQuery \/ CallOpQuery \/ CallListQuery \/ CallBuildDot

QuerySpec == Init /\ [][QueryNext]_vars

\* ------------------------------------------------ command-line front end
\* Largest Problem on which runs of the front end are explored.
MaxMainSize == 6

\* ReadProblemFromJson, part_000 lines 536 - 553: the message of the error
\* thrown for a tensor index that is out of range.
InvalidReference(field, op_id, tensor_id) ==
  [what |-> "references invalid tensor id",
   field |-> field, op_id |-> op_id, tensor_id |-> tensor_id]

\* The position of the first out-of-range index of a list, 0 if it has none.
RECURSIVE FirstInvalid(_, _)
FirstInvalid(list, k) ==
  IF k > Len(list) THEN 0
  ELSE IF list[k] >= NumTensors THEN k
  ELSE FirstInvalid(list, k + 1)

\* The final loop of ReadProblemFromJson: operations in index order, the
\* inputs of an operation before its outputs.  It checks nothing else.
RECURSIVE ValidateReferences(_)
ValidateReferences(op_id) ==
  IF op_id >= NumOps THEN NoException
  ELSE LET bad_input == FirstInvalid(GetOp(op_id).inputs, 1)
           bad_output == FirstInvalid(GetOp(op_id).outputs, 1)
       IN IF bad_input # 0
          THEN InvalidReference("inputs", op_id, GetOp(op_id).inputs[bad_input])
          ELSE IF bad_output # 0
          THEN InvalidReference("outputs", op_id,
                                GetOp(op_id).outputs[bad_output])
          ELSE ValidateReferences(op_id + 1)

FailedToOpen == [what |-> "Failed to open output file"]

\* main.cpp WriteDot, lines 48 - 57: how often a tensor is listed as an
\* output and as an input.
Produced(t) ==
  Cardinality({<<o, k>> \in OpIds \X (1..MaxSize) :
                 k <= Len(GetOp(o).outputs) /\ GetOp(o).outputs[k] = t})

Consumed(t) ==
  Cardinality({<<o, k>> \in OpIds \X (1..MaxSize) :
                 k <= Len(GetOp(o).inputs) /\ GetOp(o).inputs[k] = t})

\* main.cpp WriteDot, lines 66 - 96: the statement of a tensor node.
WriteDotTensorNode(t) ==
  LET is_graph_input == Produced(t) = 0
      is_graph_output == Consumed(t) = 0
      label == <<"T", "e", "n", "s", "o", "r", "[">> \o Digits(t) \o <<"]">>
               \o LineBreak \o Digits(GetTensor(t).height) \o <<"x">>
               \o Digits(GetTensor(t).width)
               \o (IF is_graph_input
                   THEN LineBreak \o <<"i", "n", "p", "u", "t">> ELSE <<>>)
               \o (IF is_graph_output
                   THEN LineBreak \o <<"o", "u", "t", "p", "u", "t">>
                   ELSE <<>>)
  IN [name |-> <<"t">> \o Digits(t),
      shape |-> "ellipse",
      fillcolor |-> FillColor(is_graph_input, is_graph_output),
      color |-> BorderColor(is_graph_input, is_graph_output),
      label |-> EscapeDotString(label)]

\* main.cpp WriteDot, lines 99 - 107: the statement of an operation node.
WriteDotOpNode(i) ==
  [name |-> <<"o">> \o Digits(i),
   shape |-> "box",
   fillcolor |-> "#fee2e2",
   color |-> "#991b1b",
   label |-> EscapeDotString(
               <<"O", "p", "[">> \o Digits(i) \o <<"]">>
               \o LineBreak \o GetOp(i).type
               \o LineBreak \o <<"c", "o", "s", "t", "=">>
               \o Digits(GetOp(i).base_cost))]

\* main.cpp WriteDot, lines 42 - 121: the statements written to the file,
\* computed from the Problem alone.
WriteDot ==
  [built |-> TRUE,
   tensors |-> [k \in 1..NumTensors |-> WriteDotTensorNode(k - 1)],
   ops |-> [k \in 1..NumOps |-> WriteDotOpNode(k - 1)],
   edges |-> Edges(0)]

\* main, lines 197 - 201: the arguments are parsed (with or without --dot),
\* the input file (a well-formed document) is loaded and the summary is
\* printed; an exception ends the run in the catch block, lines 209 - 213.
MainReadProblem ==
  /\ main = NotStarted
  /\ Size(problem) <= MaxMainSize
  /\ \E emit_dot \in BOOLEAN :
       LET error == ValidateReferences(0) IN
         main' = [pc |-> IF error = NoException THEN "loaded" ELSE "exit",
                  emit_dot |-> emit_dot,
                  error |-> error,
                  status |-> IF error = NoException THEN 0 ELSE 1,
                  file |-> NoDot]
  /\ UNCHANGED <<problem, ctor, graph, thrown, pc, indegree, ready, order,
                 prev, query, dot>>

\* main, lines 203 - 215: with --dot the rendering is written by WriteDot,
\* which throws if the file cannot be opened; then main returns.
MainWriteDot ==
  /\ main.pc = "loaded"
  /\ \E opened \in BOOLEAN :
       main' = IF main.emit_dot /\ ~opened
               THEN [main EXCEPT !.pc = "exit", !.error = FailedToOpen,
                                 !.status = 1]
               ELSE [main EXCEPT !.pc = "exit",
                                 !.file = IF main.emit_dot THEN WriteDot
                                          ELSE NoDot]
  /\ UNCHANGED <<problem, ctor, graph, thrown, pc, indegree, ready, order,
                 prev, query, dot>>

MainNext == PushOp \/ MainReadProblem \/ MainWriteDot

MainSpec == Init /\ [][MainNext]_vars

Spec == Init /\ [][Next]_vars

\* =============================================================== claims
\* Vocabulary of the claims, stated on the Problem alone.
Range(seq) == {seq[k] : k \in 1..Len(seq)}

Inputs(op_id) == Range(GetOp(op_id).inputs)

Outputs(op_id) == Range(GetOp(op_id).outputs)

IsStrictlyAscending(seq) == \A k \in 1..(Len(seq) - 1) : seq[k] < seq[k + 1]

Lists(op_id) == GetOp(op_id).inputs \o GetOp(op_id).outputs

AllInRange ==
  \A o \in OpIds : \A k \in 1..Len(Lists(o)) : Lists(o)[k] < NumTensors

SingleProducer ==
  \A a \in OpIds : \A k \in 1..Len(GetOp(a).outputs) :
    \A b \in OpIds : \A j \in 1..Len(GetOp(b).outputs) :
      a # b => GetOp(a).outputs[k] # GetOp(b).outputs[j]

OutputtingOps(t) == {o \in OpIds : t \in Outputs(o)}

ReadingOps(t) == {o \in OpIds : t \in Inputs(o)}

Min(S) == CHOOSE x \in S : \A y \in S : x <= y

\* A finite relation has a cycle exactly when some non-empty set of nodes has,
\* for each of its nodes, an edge into that node from a node of the set.
HasCycle(R) ==
  \E S \in SUBSET OpIds :
    S # {} /\ \A a \in S : \E b \in S : <<b, a>> \in R

Finished == pc \in {"returned", "threw"}

\* --------------------------------------------------------------------- C1
\* C1: once the constructor has run, it has succeeded if and only if every
\* tensor index of every input and output list is below the tensor count and
\* no tensor index is in the output lists of two different operations; when
\* it has not succeeded it has thrown and there is no Graph.
C1_ConstructionSucceedsIff ==
  ctor # "pending" =>
    /\ ctor = "built" <=> (AllInRange /\ SingleProducer)
    /\ ctor = "built" => (graph.built /\ (pc = "idle" => thrown = NoException))
    /\ ctor # "built" =>
         ctor = "threw" /\ graph = NoGraph /\ thrown # NoException

C1_Witness ==
  /\ ctor = "threw"
  /\ AllInRange
  /\ ~SingleProducer
  /\ \E o \in OpIds : Len(GetOp(o).outputs) = 2 /\ Cardinality(Outputs(o)) = 1

\* --------------------------------------------------------------------- C2
PredecessorEdges ==
  {<<p, s>> \in OpIds \X OpIds : p \in Range(PredecessorOps(s))}

Position(seq, v) == Min({k \in 1..Len(seq) : seq[k] = v})

IsPermutationOfOps(seq) ==
  /\ Len(seq) = NumOps
  /\ \A o \in OpIds : Cardinality({k \in 1..Len(seq) : seq[k] = o}) = 1

\* C2: on a built Graph whose predecessor relation is acyclic, a finished
\* call of TopologicalOrder has returned (not thrown), the returned order
\* holds every operation index exactly once, and every predecessor of an
\* operation stands strictly before it.
C2_TopologicalOrderOfDag ==
  (ctor = "built" /\ Finished /\ ~HasCycle(PredecessorEdges)) =>
    /\ pc = "returned"
    /\ IsPermutationOfOps(order)
    /\ \A e \in PredecessorEdges :
         Position(order, e[1]) < Position(order, e[2])

C2_Witness ==
  /\ pc = "returned"
  /\ NumOps = 3
  /\ \E s \in OpIds : \E p \in Range(PredecessorOps(s)) : p > s

\* --------------------------------------------------------------------- C3
\* Operation a depends on operation b: a reads a valid tensor whose only
\* outputting operation is b, and b is not a.
DependsOn ==
  {<<b, a>> \in OpIds \X OpIds :
     /\ a # b
     /\ \E t \in Inputs(a) \cap TensorIds : OutputtingOps(t) = {b}}

ProblemCycle == HasCycle(DependsOn)

\* C3 as stated: every Problem with a dependency cycle of two or more
\* operations is constructed successfully, and TopologicalOrder throws the
\* "not a DAG" error on it.
C3_AsStated ==
  (ctor # "pending" /\ ProblemCycle) =>
    /\ ctor = "built"
    /\ Finished => (pc = "threw" /\ thrown = NotADag)

\* C3 amended: the same, for Problems whose tensor indices are all in range
\* and in which no tensor is an output of two different operations.  Stated
\* from the outcome: a constructor that threw, a TopologicalOrder that
\* returned an order, or one that threw anything but "not a DAG" after a
\* partial order, is never met on such a Problem with a dependency cycle.
C3_CycleIsTopologyError ==
  (\/ ctor = "threw"
   \/ pc = "returned"
   \/ pc = "threw" /\ ~(thrown = NotADag /\ Len(order) < NumOps))
    => ~(AllInRange /\ SingleProducer /\ ProblemCycle)

C3_Witness ==
  /\ pc = "threw"
  /\ ProblemCycle
  /\ order # <<>>

\* --------------------------------------------------------------------- C4
RepeatsAnOutput(o) == Cardinality(Outputs(o)) < Len(GetOp(o).outputs)

\* C4: in a built Graph, ProducerOp(t) is operation o exactly when t is in
\* o's output list, and is empty exactly when t is in no output list; an
\* operation that repeats a tensor in its own output list does not make the
\* constructor throw (a Problem that is otherwise in range and single
\* producer is built) and is the recorded producer of that tensor.
C4_ProducerIsTheOutputtingOp ==
  /\ ctor = "built" =>
       \A t \in TensorIds :
         /\ \A o \in OpIds : ProducerOp(t) = Some(o) <=> t \in Outputs(o)
         /\ ProducerOp(t) = nullopt <=> OutputtingOps(t) = {}
  /\ (ctor # "pending" /\ AllInRange /\ SingleProducer) =>
       \A o \in OpIds :
         RepeatsAnOutput(o) =>
           /\ ctor = "built"
           /\ \A t \in Outputs(o) : ProducerOp(t) = Some(o)

C4_Witness ==
  /\ ctor = "built"
  /\ \E o \in OpIds : RepeatsAnOutput(o)
  /\ \E t \in TensorIds : ProducerOp(t) = nullopt

\* --------------------------------------------------------------------- C5
ProducersOfInputs(o) ==
  {p \in OpIds : p # o /\ \E t \in Inputs(o) : t \in Outputs(p)}

\* C5: in a built Graph, PredecessorOps(o) lists exactly the operations other
\* than o that output a tensor of o's input list, in strictly ascending order
\* (so without duplicates).
C5_PredecessorsAreTheProducers ==
  ctor = "built" =>
    \A o \in OpIds :
      /\ Range(PredecessorOps(o)) = ProducersOfInputs(o)
      /\ IsStrictlyAscending(PredecessorOps(o))

C5_Witness ==
  /\ ctor = "built"
  /\ \E o \in OpIds :
       /\ Len(GetOp(o).inputs) = 2
       /\ Len(PredecessorOps(o)) = 1
       /\ \A t \in Inputs(o) : OutputtingOps(t) = Range(PredecessorOps(o))

\* --------------------------------------------------------------------- C6
\* C6: in a built Graph, p is listed in PredecessorOps(o) exactly when o is
\* listed in SuccessorOps(p).
C6_SuccessorsInvertPredecessors ==
  ctor = "built" =>
    \A p \in OpIds : \A o \in OpIds :
      p \in Range(PredecessorOps(o)) <=> o \in Range(SuccessorOps(p))

C6_Witness ==
  /\ ctor = "built"
  /\ \E p \in OpIds : Len(SuccessorOps(p)) = 2

\* --------------------------------------------------------------------- C7
\* C7: in a built Graph, t is in GraphInputTensors() exactly when
\* ProducerOp(t) is empty and in GraphOutputTensors() exactly when UserOps(t)
\* is empty; both lists are strictly ascending; a tensor that no operation
\* outputs or reads is in both.
C7_BoundaryTensors ==
  ctor = "built" =>
    /\ \A t \in TensorIds :
         /\ t \in Range(GraphInputTensors) <=> ProducerOp(t) = nullopt
         /\ t \in Range(GraphOutputTensors) <=> UserOps(graph, t) = <<>>
         /\ (OutputtingOps(t) = {} /\ ReadingOps(t) = {}) =>
              (t \in Range(GraphInputTensors) /\
               t \in Range(GraphOutputTensors))
    /\ Range(GraphInputTensors) \cup Range(GraphOutputTensors)
         \subseteq TensorIds
    /\ IsStrictlyAscending(GraphInputTensors)
    /\ IsStrictlyAscending(GraphOutputTensors)

C7_Witness ==
  /\ ctor = "built"
  /\ NumOps > 0
  /\ \E t \in TensorIds : OutputtingOps(t) = {} /\ ReadingOps(t) = {}
  /\ \E t \in TensorIds : OutputtingOps(t) # {} /\ ReadingOps(t) # {}

\* --------------------------------------------------------------------- C8
\* C8: in a built Graph, UserOps(t) lists exactly the operations whose input
\* list holds t, each once, in strictly ascending order.
C8_UsersAreTheReaders ==
  ctor = "built" =>
    \A t \in TensorIds :
      /\ Range(UserOps(graph, t)) = ReadingOps(t)
      /\ IsStrictlyAscending(UserOps(graph, t))

C8_Witness ==
  /\ ctor = "built"
  /\ \E t \in TensorIds :
       /\ Len(UserOps(graph, t)) = 2
       /\ \E o \in OpIds : GetOp(o).inputs = <<t, t>>

\* --------------------------------------------------------------------- C9
\* C9: when the constructor throws for an out-of-range tensor index, the
\* exception carries that index and, with it, the field (inputs or outputs)
\* and the operation that referenced it.
C9_RangeErrorCarriesContext ==
  (ctor = "threw" /\ thrown.what = "Tensor id out of range") =>
    /\ thrown.tensor_id >= NumTensors
    /\ {"field", "op_id"} \subseteq DOMAIN thrown

\* -------------------------------------------------------------------- C10
\* Scan positions of the constructor's first loop, in scan order: operation,
\* then inputs (0) before outputs (1), then the place in the list.
InputPositions ==
  UNION {{<<o, 0, k>> : k \in 1..Len(GetOp(o).inputs)} : o \in OpIds}

OutputPositions ==
  UNION {{<<o, 1, k>> : k \in 1..Len(GetOp(o).outputs)} : o \in OpIds}

ScannedIndex(p) ==
  IF p[2] = 0 THEN GetOp(p[1]).inputs[p[3]] ELSE GetOp(p[1]).outputs[p[3]]

Before(p, q) ==
  \/ p[1] < q[1]
  \/ p[1] = q[1] /\ p[2] < q[2]
  \/ p[1] = q[1] /\ p[2] = q[2] /\ p[3] < q[3]

\* Output positions whose tensor is also an output of a lower operation.
Conflicts ==
  {q \in OutputPositions :
     \E o \in OpIds : o < q[1] /\ ScannedIndex(q) \in Outputs(o)}

FirstConflict == CHOOSE q \in Conflicts : \A r \in Conflicts : ~Before(r, q)

RangeErrorBefore(q) ==
  \E p \in InputPositions \cup OutputPositions :
    Before(p, q) /\ ScannedIndex(p) >= NumTensors

\* C10: when some tensor is an output of two different operations and no
\* out-of-range index stands before the first such conflict in scan order,
\* the constructor throws the multiple-producers error, which names the
\* tensor t of that first conflict, the lowest operation that outputs t as the
\* recorded producer and the second lowest as the operation being scanned;
\* the constructor throws that error in no other case.
C10_MultipleProducersNamesLowestTwo ==
  /\ (ctor # "pending" /\ ~SingleProducer /\ ~RangeErrorBefore(FirstConflict)) =>
       LET t == ScannedIndex(FirstConflict)
           lowest == Min(OutputtingOps(t))
       IN /\ ctor = "threw"
          /\ thrown = [what |-> "has multiple producers", tensor_id |-> t,
                       first_op |-> lowest,
                       second_op |-> Min(OutputtingOps(t) \ {lowest})]
          /\ thrown.second_op = FirstConflict[1]
  /\ (ctor = "threw" /\ thrown.what = "has multiple producers") =>
       (~SingleProducer /\ Conflicts # {} /\ ~RangeErrorBefore(FirstConflict))

C10_Witness ==
  /\ ctor = "threw"
  /\ thrown.what = "has multiple producers"
  /\ Cardinality(OutputtingOps(thrown.tensor_id)) = 3

C12_IndexQueriesFailExactlyOutOfRange ==
  (query # NoCall /\ query.fn \in TensorQueries \cup OpQueries) =>
    LET is_tensor == query.fn \in TensorQueries
        limit == IF is_tensor THEN NumTensors ELSE NumOps
    IN IF query.arg >= limit
       THEN query.thrown = (IF is_tensor THEN TensorIdOutOfRange(query.arg)
                            ELSE OpIdOutOfRange(query.arg))
       ELSE query.thrown = NoException /\ "value" \in DOMAIN query

\* An operation query was made with index M on a Graph of several
\* operations and tensors, and failed.
C12_Witness ==
  /\ query # NoCall
  /\ query.fn = "SuccessorOps"
  /\ query.arg = NumOps
  /\ query.thrown = OpIdOutOfRange(NumOps)
  /\ NumOps >= 2
  /\ NumTensors >= 2

\* ------------------------------------------------------------------- C14
Max(S) == CHOOSE x \in S : \A y \in S : y <= x

\* The operations without predecessors.
Roots == {o \in OpIds : PredecessorOps(o) = <<>>}

\* The step at which an operation of the order became ready: 0 for a root,
\* else the position of the last of its predecessors in the order.
ReadyStep(seq, o) ==
  IF o \in Roots THEN 0
  ELSE Max({Position(seq, p) : p \in Range(PredecessorOps(o))})

\* C14: the order returned by TopologicalOrder is the first-in-first-out
\* order of Kahn's algorithm: it starts with all operations without
\* predecessors in ascending index order, and of any two operations the one
\* that became ready at an earlier step stands first, and of two that became
\* ready at the same step the one with the smaller index stands first.
C14_FifoKahnOrder ==
  pc = "returned" =>
    /\ \A k \in 1..Cardinality(Roots) : order[k] \in Roots
    /\ \A i, j \in 1..Len(order) :
         i < j =>
           LET a == ReadyStep(order, order[i])
               b == ReadyStep(order, order[j])
           IN a < b \/ (a = b /\ order[i] < order[j])

\* An order was returned in which two operations became ready at the same
\* later step, behind an operation of larger index that was ready earlier.
C14_Witness ==
  /\ pc = "returned"
  /\ \E i, j, k \in 1..Len(order) :
       /\ i < j /\ j < k
       /\ order[i] > order[k]
       /\ ReadyStep(order, order[i]) < ReadyStep(order, order[j])
       /\ ReadyStep(order, order[j]) = ReadyStep(order, order[k])
       /\ ReadyStep(order, order[j]) > 0

\* ------------------------------------------------------------------- C16
\* The operations that list one of their own outputs among their inputs.
SelfLoops == {o \in OpIds : Inputs(o) \cap Outputs(o) # {}}

\* C16: on a built Graph no operation is in its own PredecessorOps or
\* SuccessorOps, also when it lists its own output among its inputs; and on
\* a Problem with such operations whose dependencies between different
\* operations have no cycle, a finished TopologicalOrder has returned an
\* order that holds every operation exactly once.
C16_SelfLoopsAreDropped ==
  ctor = "built" =>
    /\ \A o \in OpIds :
         /\ o \notin Range(PredecessorOps(o))
         /\ o \notin Range(SuccessorOps(o))
    /\ (Finished /\ SelfLoops # {} /\ ~ProblemCycle) =>
         (pc = "returned" /\ IsPermutationOfOps(order))

\* An order of several operations was returned although an operation that
\* has a predecessor reads its own output.
C16_Witness ==
  /\ pc = "returned"
  /\ NumOps >= 2
  /\ \E o \in SelfLoops : PredecessorOps(o) # <<>>

\* ------------------------------------------------------------------- C18
\* The operations pushed on the ready queue so far, in the order of their
\* pushes: the removed ones, then the waiting ones.
Pushed == order \o ready

\* C18: in every state of TopologicalOrder's loop, and when it has
\* finished, on acyclic and cyclic Graphs alike, no operation has been
\* pushed on the ready queue twice, every in-degree counter is the number of
\* the operation's predecessors not yet removed (so no counter was
\* decremented at zero), and at most M operations have been removed.
C18_LoopIsBounded ==
  pc \in {"loop", "returned", "threw"} =>
    /\ \A i, j \in 1..Len(Pushed) : Pushed[i] = Pushed[j] => i = j
    /\ \A o \in OpIds :
         /\ indegree[o] >= 0
         /\ indegree[o] =
              Cardinality(Range(PredecessorOps(o)) \ Range(order))
    /\ Len(order) <= NumOps

\* The loop has ended on a cyclic Graph: an operation was removed, and the
\* operations of the cycle were never pushed and keep their counters.
C18_Witness ==
  /\ pc = "threw"
  /\ Len(order) >= 1
  /\ \E o \in OpIds : indegree[o] > 0 /\ o \notin Range(Pushed)

\* ------------------------------------------------------------------- C13
\* A text of a label attribute is well escaped: it holds no raw newline, no
\* double quote that is not escaped, and no backslash that does not start
\* one of the escapes \\, \" and \n.
RECURSIVE WellEscaped(_)
WellEscaped(text) ==
  IF text = <<>> THEN TRUE
  ELSE IF Head(text) = Backslash
  THEN /\ Len(text) >= 2
       /\ text[2] \in {Backslash, Quote, "n"}
       /\ WellEscaped(SubSeq(text, 3, Len(text)))
  ELSE Head(text) \notin {Quote, Newline} /\ WellEscaped(Tail(text))

\* The string a well escaped text stands for.
RECURSIVE Unescape(_)
Unescape(text) ==
  IF text = <<>> THEN <<>>
  ELSE IF Head(text) = Backslash
  THEN <<IF text[2] = "n" THEN Newline ELSE text[2]>>
       \o Unescape(SubSeq(text, 3, Len(text)))
  ELSE <<Head(text)>> \o Unescape(Tail(text))

\* The annotations of an operation label before and after the type, with
\* sep as the line break between two annotations.
OpLabelHead(op_id, sep) == <<"O", "p", "[">> \o Digits(op_id) \o <<"]">> \o sep

OpLabelTail(op_id, sep) ==
  sep \o <<"c", "o", "s", "t", "=">> \o Digits(GetOp(op_id).base_cost)
  \o sep \o <<"p", "r", "e", "d", "s", "=">>
  \o Digits(Len(PredecessorOps(op_id)))
  \o sep \o <<"s", "u", "c", "c", "s", "=">>
  \o Digits(Len(SuccessorOps(op_id)))

\* The label text is the annotations of the operation with, in the place of
\* the type, a well escaped text that stands for the type.
LabelHoldsType(text, op_id, sep) ==
  LET head == OpLabelHead(op_id, sep)
      tail == OpLabelTail(op_id, sep)
      mid == SubSeq(text, Len(head) + 1, Len(text) - Len(tail))
  IN /\ Len(text) >= Len(head) + Len(tail)
     /\ SubSeq(text, 1, Len(head)) = head
     /\ SubSeq(text, Len(text) - Len(tail) + 1, Len(text)) = tail
     /\ WellEscaped(mid)
     /\ Unescape(mid) = GetOp(op_id).type

\* The two forms a line break of BuildDot can have in the text: the escape
\* backslash n, or an escaped backslash and an n.
LineBreakForms == {LineBreak, <<Backslash, Backslash, "n">>}

\* C13: in the text BuildDot returns, for operation types of any characters
\* (backslashes, double quotes and newlines among them), every label
\* attribute is well escaped (no unescaped double quote, no raw newline),
\* and every operation label holds, between the operation id and the cost,
\* the escaped type, whose un-escaping is the original type.
C13_TypeIsEscaped ==
  dot # NoDot =>
    /\ \A k \in 1..NumTensors : WellEscaped(dot.tensors[k].label)
    /\ \A k \in 1..NumOps :
         /\ WellEscaped(dot.ops[k].label)
         /\ \E sep \in LineBreakForms :
              LabelHoldsType(dot.ops[k].label, k - 1, sep)

\* A Graph was rendered whose first operation has a type made of a
\* backslash, a double quote and a newline.
C13_Witness ==
  /\ dot # NoDot
  /\ Len(GetOp(0).type) = 3
  /\ Range(GetOp(0).type) = {Backslash, Quote, Newline}

\* ------------------------------------------------------------------- C15
\* C15: in the text BuildDot returns only the characters of the operation
\* type are rewritten: a tensor label is the text of its annotations as
\* BuildDot put them together, an operation label is its annotations
\* around the escaped type, and the line breaks between annotations are a
\* single backslash followed by n.
C15_OnlyTypeIsRewritten ==
  dot # NoDot =>
    /\ \A k \in 1..NumTensors : dot.tensors[k].label = TensorLabel(k - 1)
    /\ \A k \in 1..NumOps :
         LabelHoldsType(dot.ops[k].label, k - 1, LineBreak)

\* ------------------------------------------------------------------- C17
\* C17: in a finished run of the front end that was asked for a rendering,
\* a rendering was written only after the Graph was built from the loaded
\* Problem, and for an input in which two different operations list the
\* same tensor as an output the run has failed (error printed, exit status
\* not 0) and no rendering was written.
C17_GraphBuiltBeforeRendering ==
  (main.pc = "exit" /\ main.emit_dot) =>
    /\ main.file # NoDot => ctor = "built"
    /\ (AllInRange /\ ~SingleProducer) =>
         /\ main.status # 0
         /\ main.error # NoException
         /\ main.file = NoDot

====================================================================
